---- MODULE Spec2Model ----
(***************************************************************************)
(* A model of src/main.py: the word-level tokenizer of Corpus and the      *)
(* n-gram table and sentence generator of NGramModel.                      *)
(*                                                                         *)
(* Strings are sequences of one-character strings.  A token is a string;   *)
(* the two reserved tokens are one-element sequences whose only element is *)
(* not a character of the alphabet.  Probabilities are kept exact, as the  *)
(* pair (count, total) the division of line 160 is applied to.             *)
(***************************************************************************)
EXTENDS Integers, Sequences, FiniteSets, TLC

\* ------------------------------------------------------------------ bounds
MaxLineLen == 5     \* longest string handed to tokenize on its own
MaxLines == 2       \* most lines in a corpus
MaxN == 2           \* largest order n of the model
MaxSteps == 3       \* tokens of one call whose text is tracked exactly

\* --------------------------------------------------------------- alphabet
Letters == {"a", "A"}
\* string.punctuation (its grave accent is written "grave")
Punctuation == {"!", "\"", "#", "$", "%", "&", "'", "(", ")", "*", "+", ",",
                "-", ".", "/", ":", ";", "<", "=", ">", "?", "@", "[", "\\",
                "]", "^", "_", "grave", "{", "|", "}", "~"}
\* the characters str.split() splits on
Whitespace == {" "}
\* the characters the checked strings are made of
Chars == Letters \cup {".", ","} \cup Whitespace

\* settings.py
SENTENCE_END_CHARS == {".", "!", "?"}
SENTENCE_START_TOKEN == <<"<s>">>
SENTENCE_END_TOKEN == <<"</s>">>

\* ------------------------------------------------------------ str methods
Lower(c) == IF c = "A" THEN "a" ELSE c
Upper(c) == IF c = "a" THEN "A" ELSE c
IsCased(c) == c \in Letters

\* str.lower()
lower(s) == [i \in 1..Len(s) |-> Lower(s[i])]

\* str.title(): a cased character is uppercased when the character before it
\* is not cased, and lowercased otherwise
title(s) ==
  [i \in 1..Len(s) |->
     IF i > 1 /\ IsCased(s[i-1]) THEN Lower(s[i]) ELSE Upper(s[i])]

RECURSIVE SplitFrom(_, _, _)
SplitFrom(s, i, cur) ==
  IF i > Len(s)
  THEN (IF cur = <<>> THEN <<>> ELSE <<cur>>)
  ELSE IF s[i] \in Whitespace
       THEN (IF cur = <<>> THEN SplitFrom(s, i + 1, <<>>)
                           ELSE <<cur>> \o SplitFrom(s, i + 1, <<>>))
       ELSE SplitFrom(s, i + 1, Append(cur, s[i]))

\* str.split(): the maximal runs of non-whitespace characters, in order
split(s) == SplitFrom(s, 1, <<>>)

\* ------------------------------------------------------- Corpus.tokenize
\* first while loop: punctuation is taken off the front, front to back
RECURSIVE StripBefore(_, _)
StripBefore(token, before) ==
  IF token # <<>> /\ token[1] \in Punctuation
  THEN StripBefore(Tail(token), Append(before, <<token[1]>>))
  ELSE [chars |-> before, token |-> token]

\* second while loop: punctuation is taken off the back, back to front, and
\* each one is appended as it is taken
RECURSIVE StripAfter(_, _)
StripAfter(token, after) ==
  IF token # <<>> /\ token[Len(token)] \in Punctuation
  THEN LET c == token[Len(token)]
           a1 == Append(after, <<c>>)
           a2 == IF c \in SENTENCE_END_CHARS
                 THEN Append(a1, SENTENCE_END_TOKEN) ELSE a1
       IN StripAfter(SubSeq(token, 1, Len(token) - 1), a2)
  ELSE [chars |-> after, token |-> token]

\* one iteration of the for loop over the raw words
TokenizeWord(token) ==
  LET b == StripBefore(token, <<>>)
      a == StripAfter(b.token, <<>>)
  IN b.chars \o <<a.token>> \o a.chars

RECURSIVE TokenizeWords(_, _)
TokenizeWords(tokens, k) ==
  IF k > Len(tokens) THEN <<>>
  ELSE TokenizeWord(tokens[k]) \o TokenizeWords(tokens, k + 1)

tokenize(s) == TokenizeWords(split(s), 1)

\* Corpus.__iter__: every line of the processed files, lowercased, tokenized
CorpusIter(lines) == [k \in 1..Len(lines) |-> tokenize(lower(lines[k]))]

\* ------------------------------------------- NGramModel.init_ngram_dict
\* an empty dict
EmptyDict == [x \in {} |-> 0]

\* Incr with "= 1" for "+= 1"
Incr_NoAccumulate(d, ctx, word) ==
  LET inner == IF ctx \in DOMAIN d THEN d[ctx] ELSE EmptyDict
      inner2 == [w \in DOMAIN inner \cup {word} |->
                   IF w = word THEN 1 ELSE inner[w]]
  IN [c \in DOMAIN d \cup {ctx} |-> IF c = ctx THEN inner2 ELSE d[c]]

\* ngram_dict[context][word] += 1 on a defaultdict of defaultdict(int)
Incr(d, ctx, word) ==
  LET inner == IF ctx \in DOMAIN d THEN d[ctx] ELSE EmptyDict
      cnt == IF word \in DOMAIN inner THEN inner[word] ELSE 0
      inner2 == [w \in DOMAIN inner \cup {word} |->
                   IF w = word THEN cnt + 1 ELSE inner[w]]
  IN [c \in DOMAIN d \cup {ctx} |-> IF c = ctx THEN inner2 ELSE d[c]]

\* Pad with n start markers for n-1
Pad_OneTooMany(tokens, nn) == [i \in 1..nn |-> SENTENCE_START_TOKEN] \o tokens

\* [SENTENCE_START_TOKEN] * (n-1) + tokens
Pad(tokens, nn) == [i \in 1..(nn - 1) |-> SENTENCE_START_TOKEN] \o tokens

\* the loop over i of one padded line; i is 1-based here, so it starts at n
RECURSIVE CountLine(_, _, _, _)
CountLine(d, tokens, nn, i) ==
  IF i > Len(tokens) THEN d
  ELSE CountLine(Incr(d, SubSeq(tokens, i - nn + 1, i - 1), tokens[i]),
                 tokens, nn, i + 1)

\* the loop over the lines of the corpus, on one shared dict
RECURSIVE CountCorpus(_, _, _, _)
CountCorpus(d, corp, nn, k) ==
  IF k > Len(corp) THEN d
  ELSE CountCorpus(CountLine(d, Pad(corp[k], nn), nn, nn), corp, nn, k + 1)

\* sum(word_counts.values())
RECURSIVE SumValues(_)
SumValues(f) ==
  IF DOMAIN f = {} THEN 0
  ELSE LET w == CHOOSE x \in DOMAIN f : TRUE
       IN f[w] + SumValues([y \in DOMAIN f \ {w} |-> f[y]])

\* word_counts[word] /= total, kept as the exact fraction count / total
Normalize(d) ==
  [c \in DOMAIN d |->
     LET total == SumValues(d[c])
     IN [w \in DOMAIN d[c] |-> [num |-> d[c][w], den |-> total]]]

init_ngram_dict(corp, nn) == Normalize(CountCorpus(EmptyDict, corp, nn, 1))

\* ---------------------------------------------- NGramModel.generate_token
\* self.ngram_dict[context] on the defaultdict: a missing key is inserted
\* with an empty inner dict
defaultdict_getitem(d, ctx) ==
  IF ctx \in DOMAIN d THEN d
  ELSE [c \in DOMAIN d \cup {ctx} |-> IF c = ctx THEN EmptyDict ELSE d[c]]

\* generate_token ending the sentence where it should raise
generate_token_EndOnEmpty(d, ctx) ==
  LET dist == defaultdict_getitem(d, ctx)[ctx]
  IN IF DOMAIN dist = {}
     THEN {[kind |-> "token", token |-> SENTENCE_END_TOKEN]}
     ELSE {[kind |-> "token", token |-> w] : w \in DOMAIN dist}

\* The outcomes of one call.  random.random() is uniform on [0,1), so every
\* word of the distribution can be the first whose cumulative mass reaches
\* the draw; with no word at all the loop body never runs and line 171
\* raises.
generate_token(d, ctx) ==
  LET dist == defaultdict_getitem(d, ctx)[ctx]
  IN IF DOMAIN dist = {}
     THEN {[kind |-> "raise", token |-> <<>>]}
     ELSE {[kind |-> "token", token |-> w] : w \in DOMAIN dist}

\* ---------------------------------------------------- NGramModel.__call__
InitialContext(nn) == [i \in 1..(nn - 1) |-> SENTENCE_START_TOKEN]

\* UpdateContext dropping the new token for the oldest
UpdateContext_DropLast(ctx, token) == SubSeq(Append(ctx, token), 1, Len(ctx))

\* context.append(token); context = context[1:]
UpdateContext(ctx, token) == Tail(Append(ctx, token))

\* token in set(string.punctuation)
IsPunctuationToken(token) == Len(token) = 1 /\ token[1] \in Punctuation

\* lines 187-192
AppendToSentence(sent, token) ==
  IF IsPunctuationToken(token) THEN sent \o token
  ELSE IF sent = <<>> THEN title(token)
  ELSE sent \o <<" ">> \o token

\* -------------------------------------------------------------- the state
VARIABLES
  corpus,            \* the lines of the processed files Corpus iterates over
  n,                 \* NGramModel.n
  ngram_dict,        \* NGramModel.ngram_dict
  pc,                \* new, ready, sampling, returned, raised
  context,           \* __call__: context
  sentence,          \* __call__: sentence
  sampled,           \* history: the tokens generate_token returned in this call
  dropped,           \* history: tokens of this call left out of sampled and
                     \* sentence: 0 for none, else 1 or 2 by their parity
  result,            \* what the last call returned, if it returned
  str,               \* tokenize: its argument
  tokens_processed,  \* tokenize: its return value
  tpc                \* tokenize: off, call, return

vars == <<corpus, n, ngram_dict, pc, context, sentence, sampled, dropped,
          result, str, tokens_processed, tpc>>

NoResult == [kind |-> "none", val |-> <<>>]

\* lines a processed file can hold (the last line of a file need not end a
\* sentence, and a file of blanks holds a blank line)
CorpusLines ==
  { <<>>,
    <<"a">>,
    <<"A", " ", "a", ".">>,
    <<"a", " ", ".">>,
    <<",", "a", ".">> }

Corpora == UNION {[1..k -> CorpusLines] : k \in 0..MaxLines}

Strings == UNION {[1..k -> Chars] : k \in 0..MaxLineLen}

\* the tokens of the corpus lines, and those that do not end a sentence
Vocabulary ==
  UNION {{tokenize(lower(line))[i] : i \in 1..Len(tokenize(lower(line)))} :
           line \in CorpusLines}

Words == Vocabulary \ {SENTENCE_END_TOKEN}

\* ------------------------------------------------------------ the actions
ModelVarsIdle ==
  /\ n = 1
  /\ ngram_dict = EmptyDict
  /\ context = <<>>
  /\ sentence = <<>>
  /\ sampled = <<>>
  /\ dropped = 0
  /\ result = NoResult

\* a Corpus has been constructed; no NGramModel yet
Init ==
  /\ corpus \in Corpora
  /\ pc = "new"
  /\ ModelVarsIdle
  /\ str = <<>>
  /\ tokens_processed = <<>>
  /\ tpc = "off"

\* NGramModel.__init__
NGramModel_init(nn) ==
  /\ pc = "new"
  /\ n' = nn
  /\ ngram_dict' = init_ngram_dict(CorpusIter(corpus), nn)
  /\ pc' = "ready"
  /\ UNCHANGED <<corpus, context, sentence, sampled, dropped, result,
                 str, tokens_processed, tpc>>

\* __call__, lines 175-176
Call_begin ==
  /\ pc \in {"ready", "returned", "raised"}
  /\ sentence' = <<>>
  /\ context' = InitialContext(n)
  /\ sampled' = <<>>
  /\ dropped' = 0
  /\ result' = NoResult
  /\ pc' = "sampling"
  /\ UNCHANGED <<corpus, n, ngram_dict, str, tokens_processed, tpc>>

\* one iteration of the while loop in which generate_token raises: the
\* exception leaves __call__
Call_raise ==
  /\ pc = "sampling"
  /\ [kind |-> "raise", token |-> <<>>] \in generate_token(ngram_dict, context)
  /\ ngram_dict' = defaultdict_getitem(ngram_dict, context)
  /\ pc' = "raised"
  /\ UNCHANGED <<corpus, n, context, sentence, sampled, dropped, result,
                 str, tokens_processed, tpc>>

\* one iteration in which the end token is sampled: break, return sentence
Call_break ==
  /\ pc = "sampling"
  /\ [kind |-> "token", token |-> SENTENCE_END_TOKEN]
       \in generate_token(ngram_dict, context)
  /\ ngram_dict' = defaultdict_getitem(ngram_dict, context)
  /\ context' = UpdateContext(context, SENTENCE_END_TOKEN)
  /\ result' = [kind |-> "str", val |-> sentence]
  /\ pc' = "returned"
  /\ UNCHANGED <<corpus, n, sentence, sampled, dropped,
                 str, tokens_processed, tpc>>

\* one iteration in which another token is sampled.  The text of the first
\* MaxSteps tokens is tracked; past that the loop goes on as before and
\* only the text stops growing.
Call_continue(token) ==
  /\ pc = "sampling"
  /\ [kind |-> "token", token |-> token] \in generate_token(ngram_dict, context)
  /\ ngram_dict' = defaultdict_getitem(ngram_dict, context)
  /\ context' = UpdateContext(context, token)
  /\ IF Len(sampled) < MaxSteps
     THEN /\ sentence' = AppendToSentence(sentence, token)
          /\ sampled' = Append(sampled, token)
          /\ dropped' = dropped
     ELSE /\ dropped' = (IF dropped = 1 THEN 2 ELSE 1)
          /\ UNCHANGED <<sentence, sampled>>
  /\ UNCHANGED <<corpus, n, pc, result, str, tokens_processed, tpc>>

Next ==
  \/ \E nn \in 1..MaxN : NGramModel_init(nn)
  \/ Call_begin
  \/ Call_raise
  \/ Call_break
  \/ \E token \in Words : Call_continue(token)

Spec == Init /\ [][Next]_vars

\* random.random() is fair: an outcome of generate_token that keeps being
\* possible is drawn in the end
FairSpec ==
  /\ Spec
  /\ WF_vars(Call_begin)
  /\ SF_vars(Call_raise)
  /\ SF_vars(Call_break)
  /\ \A token \in Words : SF_vars(Call_continue(token))

\* ------------------------------------------------- tokenize on its own
InitTok ==
  /\ str \in Strings
  /\ tokens_processed = <<>>
  /\ tpc = "call"
  /\ corpus = <<>>
  /\ pc = "off"
  /\ ModelVarsIdle

Tokenize ==
  /\ tpc = "call"
  /\ tokens_processed' = tokenize(str)
  /\ tpc' = "return"
  /\ UNCHANGED <<corpus, n, ngram_dict, pc, context, sentence, sampled,
                 dropped, result, str>>

NextTok == Tokenize

SpecTok == InitTok /\ [][NextTok]_vars

\* ------------------------------------------------------------- the claims
\* the table __init__ built, whatever later calls did to ngram_dict
TrainedTable == init_ngram_dict(CorpusIter(corpus), n)

EndsInSentenceEnd(line) ==
  Len(line) > 0 /\ line[Len(line)] \in SENTENCE_END_CHARS

EveryLineEndsASentence == \A k \in 1..Len(corpus) : EndsInSentenceEnd(corpus[k])

EveryLineTokenizesToNothing ==
  \A k \in 1..Len(corpus) : tokenize(lower(corpus[k])) = <<>>

Constructed == pc \in {"ready", "sampling", "returned", "raised"}

\* ---- C1
\* the number of punctuation characters a word starts with
C1_LeadingCount(w) ==
  CHOOSE k \in 0..Len(w) :
    /\ \A i \in 1..k : w[i] \in Punctuation
    /\ k = Len(w) \/ w[k + 1] \notin Punctuation

\* the number of punctuation characters a word ends with
C1_TrailingCount(w) ==
  CHOOSE k \in 0..Len(w) :
    /\ \A i \in (Len(w) - k + 1)..Len(w) : w[i] \in Punctuation
    /\ k = Len(w) \/ w[Len(w) - k] \notin Punctuation

\* punctuation characters as symbols, left to right, the end marker after
\* each sentence-end character
RECURSIVE C1_InOrder(_, _)
C1_InOrder(chars, i) ==
  IF i > Len(chars) THEN <<>>
  ELSE <<(<<chars[i]>>)>>
       \o (IF chars[i] \in SENTENCE_END_CHARS
           THEN <<SENTENCE_END_TOKEN>> ELSE <<>>)
       \o C1_InOrder(chars, i + 1)

C1_WordSymbols(w) ==
  LET lead == C1_LeadingCount(w)
      rest == SubSeq(w, lead + 1, Len(w))
      trail == C1_TrailingCount(rest)
  IN [i \in 1..lead |-> <<w[i]>>]
     \o <<SubSeq(rest, 1, Len(rest) - trail)>>
     \o C1_InOrder(SubSeq(rest, Len(rest) - trail + 1, Len(rest)), 1)

RECURSIVE C1_LineSymbols(_, _)
C1_LineSymbols(words, k) ==
  IF k > Len(words) THEN <<>>
  ELSE C1_WordSymbols(words[k]) \o C1_LineSymbols(words, k + 1)

\* C1: tokenize returns, for each raw word in order, its leading punctuation
\* characters in original order, its core, and its trailing punctuation
\* characters in original left-to-right order, the end marker right after
\* each sentence-end character.
C1_TokensInOriginalOrder ==
  tpc = "return" => tokens_processed = C1_LineSymbols(split(str), 1)

\* ---- C2
\* a line of the corpus, tokenized and left-padded with n-1 start markers
C2_Padded(k) ==
  LET toks == tokenize(lower(corpus[k]))
  IN [i \in 1..(n - 1 + Len(toks)) |->
        IF i <= n - 1 THEN SENTENCE_START_TOKEN ELSE toks[i - (n - 1)]]

\* the width-n windows of the corpus: (line, position of the last token)
C2_Windows ==
  UNION {{<<k, i>> : i \in n..Len(C2_Padded(k))} : k \in 1..Len(corpus)}

C2_ContextAt(win) == SubSeq(C2_Padded(win[1]), win[2] - n + 1, win[2] - 1)
C2_WordAt(win) == C2_Padded(win[1])[win[2]]

C2_CountContext(c) ==
  Cardinality({win \in C2_Windows : C2_ContextAt(win) = c})
C2_CountPair(c, w) ==
  Cardinality({win \in C2_Windows : C2_ContextAt(win) = c /\ C2_WordAt(win) = w})

\* C2: the table __init__ builds has exactly the contexts that start some
\* window of the start-padded corpus, and gives word w after context c the
\* probability (windows c,w) / (windows c), counted over all lines together.
C2_TableIsWindowFrequencies ==
  pc = "ready" =>
    /\ DOMAIN ngram_dict = {C2_ContextAt(win) : win \in C2_Windows}
    /\ \A c \in DOMAIN ngram_dict :
         /\ DOMAIN ngram_dict[c]
              = {C2_WordAt(win) : win \in {x \in C2_Windows : C2_ContextAt(x) = c}}
         /\ \A w \in DOMAIN ngram_dict[c] :
              /\ ngram_dict[c][w].den > 0
              /\ ngram_dict[c][w].num * C2_CountContext(c)
                   = C2_CountPair(c, w) * ngram_dict[c][w].den

\* two lines share the context (a): once followed by a, twice by "."
C2_Witness ==
  /\ pc = "ready"
  /\ n = 2
  /\ Len(corpus) = 2
  /\ <<(<<"a">>)>> \in DOMAIN ngram_dict
  /\ DOMAIN ngram_dict[<<(<<"a">>)>>] = {<<"a">>, <<".">>}
  /\ ngram_dict[<<(<<"a">>)>>][<<".">>] = [num |-> 2, den |-> 3]

\* ---- C3
\* C3: after construction, and after any calls, every context of the table
\* has a non-empty distribution whose probabilities sum to exactly 1.
C3_DistributionsSumToOne ==
  Constructed =>
    \A c \in DOMAIN ngram_dict :
      /\ DOMAIN ngram_dict[c] # {}
      /\ \A w \in DOMAIN ngram_dict[c] :
           /\ ngram_dict[c][w].den > 0
           /\ SumValues([x \in DOMAIN ngram_dict[c] |-> ngram_dict[c][x].num])
                = ngram_dict[c][w].den

\* ---- C4
\* C4: no step of a generation call changes the table.
C4_TableImmutable == [][Constructed => ngram_dict' = ngram_dict]_vars

\* ---- C5
\* C5: with a corpus whose every line ends in a sentence-end character, a
\* call that is sampling comes to an end.  (The claim says more, that it
\* ends by sampling the end marker; already this much fails.)
C5_CallTerminates ==
  (pc = "sampling" /\ EveryLineEndsASentence) ~> (pc \in {"returned", "raised"})

\* ---- C6
\* C6: a call that reaches a context with no entry in the trained table
\* fails there: it raises, returns no string, and samples nothing more.
C6_UnseenContextRaises ==
  [][(pc = "sampling" /\ context \notin DOMAIN TrainedTable)
       => (pc' = "raised" /\ result' = NoResult
           /\ sampled' = sampled /\ sentence' = sentence)]_vars

\* a call that had built a partial sentence and then raised
C6_Witness ==
  /\ pc = "raised"
  /\ context \notin DOMAIN TrainedTable
  /\ sentence # <<>>
  /\ result = NoResult

\* ---- C7
\* C7 as stated: with no line, or only lines that tokenize to nothing,
\* construction fails, so no model is ever returned.
C7_EmptyCorpusFailsConstruction == EveryLineTokenizesToNothing => ~Constructed

\* C7 amended: with such a corpus construction returns a model, and its
\* table has no entries.
C7_EmptyCorpusGivesEmptyTable ==
  (pc = "ready" /\ EveryLineTokenizesToNothing) => DOMAIN ngram_dict = {}

C7_Witness ==
  pc = "ready" /\ EveryLineTokenizesToNothing /\ Len(corpus) >= 1

\* ---- C8
C8_Window ==
  LET all == [i \in 1..(n - 1) |-> SENTENCE_START_TOKEN] \o sampled
  IN SubSeq(all, Len(all) - (n - 1) + 1, Len(all))

\* C8: at every sampling step the context has n-1 symbols and is the last
\* n-1 of (n-1 start markers, then the tokens sampled so far in this call).
C8_ContextIsLastTokens ==
  pc = "sampling" =>
    /\ Len(context) = n - 1
    /\ dropped = 0 => context = C8_Window

\* a context made of sampled tokens only
C8_Witness ==
  /\ pc = "sampling"
  /\ n = 2
  /\ Len(sampled) = 2
  /\ dropped = 0
  /\ context = <<sampled[2]>>

\* ---- C9
\* the claim's rendering: text so far, and whether a word was rendered
C9_Step(st, token) ==
  IF IsPunctuationToken(token)
  THEN [text |-> st.text \o token, word |-> st.word]
  ELSE [text |-> (IF st.text = <<>> THEN <<>> ELSE st.text \o <<" ">>)
                 \o (IF st.word THEN token ELSE title(token)),
        word |-> st.word \/ token # <<>>]

RECURSIVE C9_Render(_, _, _)
C9_Render(st, toks, i) ==
  IF i > Len(toks) THEN st.text
  ELSE C9_Render(C9_Step(st, toks[i]), toks, i + 1)

\* C9: the returned string renders the sampled tokens in order: punctuation
\* with no space before it, the first word capitalized, also when
\* punctuation came before it, and a space before every later word.
C9_FirstWordCapitalized ==
  (pc = "returned" /\ dropped = 0) =>
    result = [kind |-> "str",
              val |-> C9_Render([text |-> <<>>, word |-> FALSE], sampled, 1)]

\* ---- C10
\* C10: with a non-empty corpus whose every line ends in a sentence-end
\* character, no call raises 'No token was generated'.
C10_NoCallRaises ==
  (Len(corpus) >= 1 /\ EveryLineEndsASentence) => pc # "raised"

====
